---- MODULE Spec2Model ----
(***************************************************************************)
(* GMII source (driver) and sink (monitor) of cocotbext/eth/gmii.py, wired *)
(* to the same bus, clock, reset and clock-enable, as in                   *)
(* tests/gmii/test_gmii.py.                                                *)
(*                                                                         *)
(* Each coroutine segment between two awaits is one action.  A simulation  *)
(* cycle is the sequence                                                   *)
(*   Tick      the simulator advances to the next rising edge              *)
(*   SrcEdge   GmiiSource._run resumes from RisingEdge                     *)
(*   SnkEdge   GmiiSink._run resumes from RisingEdge                       *)
(*   Write     the writes of this edge are applied (rst, enable)           *)
(*   SrcRO     GmiiSource._run resumes from ReadOnly                       *)
(*   SnkRO     GmiiSink._run resumes from ReadOnly                         *)
(* and the calls of user code (send, recv, wait) interleave with them      *)
(* anywhere.  A caller suspended in GmiiSink.wait() is resumed by the Event *)
(* within the time step that sets it, or by its Timer when the simulator   *)
(* advances; a caller suspended in GmiiSource.wait() is resumed at every   *)
(* edge, before or after _run.  GmiiFrame.normalize() on a frame of its    *)
(* own is NormalizeCall.                                                   *)
(* Optional values (None or a value) are sequences of length 0 or 1.       *)
(***************************************************************************)
EXTENDS Integers, Sequences, FiniteSets, TLC

VARIABLES
    \* ---- GmiiSource
    src_queue,      \* self.queue: frames [data, error, id]
    src_bytes,      \* self.queue_occupancy_bytes
    src_frames,     \* self.queue_occupancy_frames
    src_active,     \* self.active
    src_frame,      \* _run's local frame (None or Some(frame))
    ifg_cnt,        \* _run's local ifg_cnt
    ifg,            \* self.ifg
    src_pc,         \* where _run is suspended: "ro", "edge", "rst_edge", "dead"
    \* ---- bus and control signals
    has_er,         \* whether the bus has an er signal
    bus_d,          \* bus.d
    bus_er,         \* bus.er
    bus_en,         \* bus.en (= bus.dv)
    rst,            \* reset signal
    enable,         \* clock enable signal (absent = held TRUE)
    now,            \* get_sim_time(), in clock cycles
    step,           \* what the scheduler runs next
    \* ---- GmiiSink
    snk_queue,      \* self.queue: frames [data, error, rx_sim_time, stime]
    snk_bytes,      \* self.queue_occupancy_bytes
    snk_frames,     \* self.queue_occupancy_frames
    snk_active,     \* self.active
    snk_frame,      \* _run's local frame (None or Some(frame))
    snk_pc,         \* where _run is suspended: "ro", "edge", "rst_edge"
    sync,           \* self.sync: whether the Event is set
    recv_ret,       \* what the last recv() returned
    \* ---- history
    sent,           \* the frames passed to send(), in order: [data, payload]
    rx_log,         \* the frames the sink has enqueued, in order
    recv_n,         \* how many frames recv() has returned
    bus_id,         \* id and index of the byte on the bus
    flushed,        \* ids of the frames a reset discarded mid-transmission
    dropped,        \* sample times of the bytes of frames the sink discarded
    idle_cnt,       \* edges with en driven 0 (or held 0) since the last byte
    pred_end,       \* "none": no frame has ended yet; else whether a frame was
                    \* queued ("queued") or not ("late") when the last one ended
    last_gap,       \* the gap before the last frame start: None or Some([gap, queued])
    n_driven,       \* bytes driven on the bus so far
    n_flushed,      \* bytes of dequeued frames discarded by a reset
    n_lost,         \* bytes of the dequeued frame on which _run stopped
    \* ---- callers suspended in wait()
    wait_pc,        \* the consumer of the sink: "idle", "blocked" in wait(),
                    \* "woken" by the Event, "back" from wait()
    wait_timer,     \* the Timer of wait(timeout): None or Some(cycles left)
    wait_how,       \* how the last wait() of the sink returned: "none",
                    \* "at_once", "event", "timeout"
    swait_pc,       \* the caller of the source's wait(): "none", "armed" (awaiting
                    \* RisingEdge), "due" (the edge has come), "done"
    \* ---- a GmiiFrame on its own
    nf              \* None, or Some of a frame that normalize() is called on:
                    \* data, error, the error it was made with (error_in), its
                    \* error after the first call (error_once), the number of
                    \* calls made, and whether one has raised

srcVars ==
    <<src_queue, src_bytes, src_frames, src_active, src_frame, ifg_cnt, ifg, src_pc>>

busVars ==
    <<bus_d, bus_er, bus_en>>

sigVars ==
    <<has_er, rst, enable, now>>

snkVars ==
    <<snk_queue, snk_bytes, snk_frames, snk_active, snk_frame, snk_pc, sync>>

srcHist ==
    <<bus_id, flushed, idle_cnt, pred_end, last_gap, n_driven, n_flushed, n_lost>>

snkHist ==
    <<rx_log, dropped>>

waitVars ==
    <<wait_pc, wait_timer, wait_how, swait_pc>>

vars ==
    <<srcVars, busVars, sigVars, snkVars, srcHist, snkHist, waitVars, step, recv_ret, sent, recv_n, nf>>

\* ------------------------------------------------------------------ bounds

\* cycles simulated under Spec (reset and enable free)
MaxTime ==
    4

\* calls of send() in one run
MaxSend ==
    2

\* bytes of a frame passed to send() directly
MaxLen ==
    2

\* bytes of a payload passed to from_payload()
MaxPayload ==
    1

\* largest configured inter-frame gap besides the default one
MaxIfg ==
    2

\* last cycle on which the linked test bench calls send()
SendDeadline ==
    1

\* longest timeout passed to the sink's wait(), in cycles
MaxTimeout ==
    2

\* last cycle on which reset may be asserted when it is not asserted forever
ResetDeadline ==
    2

\* calls of normalize() on one frame
MaxNormalize ==
    2

DefaultIfg ==
    12

PreambleLen ==
    8

\* ------------------------------------------------------------------ values

None ==
    <<>>

Some(x) ==
    <<x>>

Val(o) ==
    o[1]

Max(a, b) ==
    IF a >= b THEN a ELSE b

Min(a, b) ==
    IF a <= b THEN a ELSE b

RECURSIVE SumLen(_)
SumLen(q) ==
    IF q = <<>> THEN 0 ELSE Len(Head(q).data) + SumLen(Tail(q))

Repeat(x, n) ==
    [i \in 1..n |-> x]

AnyErr(e) ==
    \E i \in 1..Len(e) : e[i] # 0

\* ------------------------------------------------------------------ GmiiFrame

ETH_PREAMBLE ==
    [i \in 1..PreambleLen |-> IF i < PreambleLen THEN 85 ELSE 213]

\* GmiiFrame.from_payload
FromPayload(p) ==
    ETH_PREAMBLE \o p

\* get_payload with the slice starting one byte early
GetPayloadOffByOne(data) ==
    SubSeq(data, PreambleLen, Len(data))

\* GmiiFrame.get_payload: data[8:]
GetPayload(data) ==
    SubSeq(data, PreambleLen + 1, Len(data))

\* normalize() raises IndexError on self.error[-1] when error is the empty list
NormalizeRaises(f) ==
    f.error # None /\ Val(f.error) = <<>>

\* normalize() filling the missing markers with zeros
NormalizeZeroPad(f) ==
    LET n == Len(f.data)
    IN  IF f.error # None
        THEN LET e == Val(f.error)
             IN  SubSeq(e, 1, Min(n, Len(e))) \o Repeat(0, Max(n - Len(e), 0))
        ELSE Repeat(0, n)

\* GmiiFrame.normalize: the new value of error, a list
Normalize(f) ==
    LET n == Len(f.data)
    IN  IF f.error # None
        THEN LET e == Val(f.error)
             IN  SubSeq(e, 1, Min(n, Len(e))) \o Repeat(e[Len(e)], Max(n - Len(e), 0))
        ELSE Repeat(0, n)

\* compact() keeping a list of markers that are all zero
CompactKeepsZeros(e) ==
    Some(e)

\* GmiiFrame.compact: the new value of error (None or a list), error being a list
Compact(e) ==
    IF ~AnyErr(e) THEN None ELSE Some(e)

\* the lists of error markers of a length from lo to hi
RECURSIVE ErrorLists(_, _)
ErrorLists(lo, hi) ==
    IF lo > hi
    THEN {}
    ELSE [1..lo -> {0, 1}] \cup ErrorLists(lo + 1, hi)

\* ------------------------------------------------------------------ inputs

IfgValues ==
    (-1..MaxIfg) \cup {DefaultIfg}

\* incrementing_payload(length) of the test bench, from 1
IncrementingPayload(n) ==
    [i \in 1..n |-> i]

\* the ifg values of the test bench
TestIfg ==
    {0, DefaultIfg}

\* frames sent under Spec: of any length from 0 without error markers, one with
\* fewer markers than bytes, one with an empty list of markers
TxFrames ==
    {[data |-> IncrementingPayload(n), error |-> None] : n \in 0..MaxLen}
        \cup {[data |-> IncrementingPayload(MaxLen), error |-> Some(<<1>>)],
              [data |-> IncrementingPayload(1), error |-> Some(<<>>)]}

\* frames sent under LinkSpec: non-empty, without error markers, of any length;
\* the k-th frame sent counts up from k, so that no two frames sent are equal
LinkFrames(k) ==
    {[data |-> [i \in 1..n |-> k + i - 1], error |-> None] : n \in 1..MaxLen}

\* frames sent under DriverSpec: non-empty, the k-th one counting up from k,
\* without error markers or with a list of them, empty or not
DriverFrames(k) ==
    {[data |-> [i \in 1..n |-> k + i - 1], error |-> e] :
        n \in 1..MaxLen, e \in {None, Some(<<>>), Some(<<1>>)}}

\* frames sent under ErrSpec: non-empty, the k-th one counting up from k, each
\* with a non-empty list of error markers: any list, shorter than, as long as
\* or longer than data, for the first frame, a single marker for the others
ErrFrames(k) ==
    {[data |-> [i \in 1..n |-> k + i - 1], error |-> Some(l)] :
        n \in 1..MaxLen, l \in ErrorLists(1, IF k = 1 THEN MaxLen + 1 ELSE 1)}

\* payloads passed to from_payload under RoundTripSpec: of any length from 0,
\* the k-th one counting up from k
Payloads(k) ==
    {[i \in 1..n |-> k + i - 1] : n \in 0..MaxPayload}

\* ------------------------------------------------------------------ Init

\* the state after both constructors, ifg and the er signal being configured
StartLink(ifgs, ers) ==
    /\ src_queue = <<>>
    /\ src_bytes = 0
    /\ src_frames = 0
    /\ src_active = FALSE
    /\ src_frame = None
    /\ ifg_cnt = 0
    /\ ifg \in ifgs
    /\ src_pc = "ro"
    /\ has_er \in ers
    /\ bus_d = 0
    /\ bus_er = 0
    /\ bus_en = 0
    /\ rst = FALSE
    /\ enable = TRUE
    /\ now = 0
    /\ step = "write"
    /\ snk_queue = <<>>
    /\ snk_bytes = 0
    /\ snk_frames = 0
    /\ snk_active = FALSE
    /\ snk_frame = None
    /\ snk_pc = "ro"
    /\ sync = FALSE
    /\ recv_ret = None
    /\ sent = <<>>
    /\ rx_log = <<>>
    /\ recv_n = 0
    /\ bus_id = None
    /\ flushed = {}
    /\ dropped = {}
    /\ idle_cnt = 0
    /\ pred_end = "none"
    /\ last_gap = None
    /\ n_driven = 0
    /\ n_flushed = 0
    /\ n_lost = 0
    /\ wait_pc = "idle"
    /\ wait_timer = None
    /\ wait_how = "none"
    /\ swait_pc = "none"

\* the test bench, no frame being looked at on its own
Start(ifgs, ers) ==
    /\ StartLink(ifgs, ers)
    /\ nf = None

Init ==
    Start(TestIfg, {TRUE})

LinkInit ==
    Start(IfgValues, {TRUE})

RoundTripInit ==
    Start(TestIfg, BOOLEAN)

\* run_test with ifg = 0
WaitInit ==
    Start({0}, {TRUE})

\* the frames normalize() is called on: data of any length from 0, error
\* absent or a list shorter than, as long as or longer than data
NormFrames ==
    {[data |-> IncrementingPayload(n), error |-> e, error_in |-> e, error_once |-> None,
      calls |-> 0, raised |-> FALSE] :
        n \in 0..MaxLen, e \in {None} \cup {Some(l) : l \in ErrorLists(0, MaxLen + 1)}}

\* a GmiiFrame has been constructed, nothing else is going on
NormInit ==
    /\ StartLink({DefaultIfg}, {TRUE})
    /\ nf \in {Some(f) : f \in NormFrames}

\* frame.normalize(), once more
NormalizeCall ==
    /\ nf # None
    /\ ~Val(nf).raised
    /\ Val(nf).calls < MaxNormalize
    /\ LET f == Val(nf)
           e == IF NormalizeRaises(f) THEN f.error ELSE Some(Normalize(f))
       IN  nf' = Some([f EXCEPT !.error = e,
                                !.error_once = IF f.calls = 0 THEN e ELSE f.error_once,
                                !.calls = f.calls + 1,
                                !.raised = NormalizeRaises(f)])
    /\ UNCHANGED <<srcVars, busVars, sigVars, snkVars, srcHist, snkHist, waitVars>>
    /\ UNCHANGED <<step, recv_ret, sent, recv_n>>

\* ------------------------------------------------------------------ GmiiSource

\* send() counting the frame instead of its bytes
SendBytesOne(b, f) ==
    b + 1

\* send(): queue_occupancy_bytes += len(frame)
SendBytes(b, f) ==
    b + Len(f.data)

\* send(frame), frame a GmiiFrame or the arguments of one
Send(f, payload, deadline) ==
    /\ Len(sent) < MaxSend
    /\ now <= deadline
    /\ src_bytes' = SendBytes(src_bytes, f)
    /\ src_frames' = src_frames + 1
    /\ src_queue' = Append(src_queue, [data |-> f.data, error |-> f.error, id |-> Len(sent) + 1])
    /\ sent' = Append(sent, [data |-> f.data, error |-> f.error, payload |-> payload])
    /\ UNCHANGED <<src_active, src_frame, ifg_cnt, ifg, src_pc>>
    /\ UNCHANGED <<busVars, sigVars, snkVars, srcHist, snkHist, waitVars, step, recv_ret, recv_n, nf>>

\* send(GmiiFrame.from_payload(p))
SendPayload(p, deadline) ==
    Send([data |-> FromPayload(p), error |-> None], Some(p), deadline)

\* count()
SourceCount ==
    Len(src_queue)

\* empty()
SourceEmpty ==
    src_queue = <<>>

\* idle() looking at the queue alone
SourceIdleQueueOnly ==
    SourceEmpty

\* idle()
SourceIdle ==
    SourceEmpty /\ ~src_active

\* the reload without the minimum of one cycle
IfgReloadNoMin(g) ==
    g

\* the reload counting the cycle of the last byte as one of the gap
IfgReloadShort(g) ==
    Max(g - 1, 1)

\* ifg_cnt after the last byte of a frame
IfgReload(g) ==
    Max(g, 1)

\* the reset branch leaving the frame in transmission in place
SrcResetKeepsFrame ==
    /\ src_frame' = src_frame
    /\ ifg_cnt' = 0
    /\ src_active' = FALSE
    /\ bus_d' = 0
    /\ bus_er' = 0
    /\ bus_en' = 0
    /\ UNCHANGED <<src_queue, src_bytes, src_frames>>
    /\ bus_id' = None
    /\ idle_cnt' = idle_cnt + 1
    /\ flushed' = IF src_frame # None THEN flushed \cup {Val(src_frame).id} ELSE flushed
    /\ n_flushed' = IF src_frame # None THEN n_flushed + Len(Val(src_frame).data) ELSE n_flushed
    /\ UNCHANGED <<pred_end, last_gap, n_driven, n_lost>>

\* the reset branch emptying the queue as well
SrcResetClearsQueue ==
    /\ src_frame' = None
    /\ ifg_cnt' = 0
    /\ src_active' = FALSE
    /\ bus_d' = 0
    /\ bus_er' = 0
    /\ bus_en' = 0
    /\ src_queue' = <<>>
    /\ src_bytes' = 0
    /\ src_frames' = 0
    /\ bus_id' = None
    /\ idle_cnt' = idle_cnt + 1
    /\ flushed' = IF src_frame # None THEN flushed \cup {Val(src_frame).id} ELSE flushed
    /\ n_flushed' = IF src_frame # None THEN n_flushed + Len(Val(src_frame).data) ELSE n_flushed
    /\ UNCHANGED <<pred_end, last_gap, n_driven, n_lost>>

\* _run, the reset branch after its RisingEdge
SrcReset ==
    /\ src_frame' = None
    /\ ifg_cnt' = 0
    /\ src_active' = FALSE
    /\ bus_d' = 0
    /\ bus_er' = 0
    /\ bus_en' = 0
    /\ UNCHANGED <<src_queue, src_bytes, src_frames>>
    /\ bus_id' = None
    /\ idle_cnt' = idle_cnt + 1
    /\ flushed' = IF src_frame # None THEN flushed \cup {Val(src_frame).id} ELSE flushed
    /\ n_flushed' = IF src_frame # None THEN n_flushed + Len(Val(src_frame).data) ELSE n_flushed
    /\ UNCHANGED <<pred_end, last_gap, n_driven, n_lost>>

\* the test of enable always passing
SrcEnabledAlways(e) ==
    TRUE

\* self.enable is None or self.enable.value, an absent enable being held TRUE
SrcEnabled(e) ==
    e

\* _run with enable de-asserted: nothing is done at this edge
SrcHold ==
    /\ UNCHANGED <<src_queue, src_bytes, src_frames, src_active, src_frame, ifg_cnt>>
    /\ UNCHANGED busVars
    /\ idle_cnt' = IF bus_en = 0 THEN idle_cnt + 1 ELSE idle_cnt
    /\ UNCHANGED <<bus_id, flushed, pred_end, last_gap, n_driven, n_flushed, n_lost>>

\* the dequeue as an if of its own, taken in the inter-frame gap as well
CanDequeueInGap(cnt, fr, q) ==
    fr = None /\ q # <<>>

\* the condition of the elif that dequeues: not in IFG, no frame, queue not empty
CanDequeue(cnt, fr, q) ==
    ~(cnt > 0) /\ fr = None /\ q # <<>>

\* _run terminated by an exception: its coroutine runs no more
SrcDead ==
    /\ UNCHANGED <<src_queue, src_bytes, src_frames, src_active, src_frame, ifg_cnt>>
    /\ UNCHANGED busVars
    /\ UNCHANGED srcHist

\* _run with enable asserted (or absent): the body of the edge
SrcDrive ==
    LET deq == CanDequeue(ifg_cnt, src_frame, src_queue)
        cnt1 == IF ifg_cnt > 0 THEN ifg_cnt - 1 ELSE ifg_cnt
        popped == Head(src_queue)
        raises == deq /\ NormalizeRaises(popped)
        fr == IF deq
              THEN Some([popped EXCEPT !.error = Some(Normalize(popped))])
              ELSE src_frame
    IN  /\ src_queue' = IF deq THEN Tail(src_queue) ELSE src_queue
        /\ src_bytes' = IF deq THEN src_bytes - Len(popped.data) ELSE src_bytes
        /\ src_frames' = IF deq THEN src_frames - 1 ELSE src_frames
        /\ IF raises
           THEN \* frame.normalize() raises: _run ends, its locals are gone
                /\ src_frame' = None
                /\ src_pc' = "dead"
                /\ ifg_cnt' = cnt1
                /\ n_lost' = n_lost + Len(popped.data)
                /\ UNCHANGED <<src_active, busVars>>
                /\ UNCHANGED <<bus_id, flushed, idle_cnt, pred_end, last_gap, n_driven, n_flushed>>
           ELSE IF fr # None /\ Val(fr).data = <<>>
           THEN \* frame.data.pop(0) raises: _run ends, its locals are gone
                /\ src_frame' = None
                /\ src_active' = TRUE
                /\ src_pc' = "dead"
                /\ ifg_cnt' = cnt1
                /\ UNCHANGED <<busVars, srcHist>>
           ELSE IF fr # None
           THEN LET f == Val(fr)
                    rest == [f EXCEPT !.data = Tail(f.data), !.error = Some(Tail(Val(f.error)))]
                    last == rest.data = <<>>
                IN  /\ bus_d' = Head(f.data)
                    /\ bus_er' = IF has_er THEN Head(Val(f.error)) ELSE bus_er
                    /\ bus_en' = 1
                    /\ src_active' = TRUE
                    /\ ifg_cnt' = IF last THEN IfgReload(ifg) ELSE cnt1
                    /\ src_frame' = IF last THEN None ELSE Some(rest)
                    /\ src_pc' = "ro"
                    /\ bus_id' = Some(<<f.id, Len(sent[f.id].data) - Len(f.data) + 1>>)
                    /\ idle_cnt' = 0
                    /\ n_driven' = n_driven + 1
                    /\ last_gap' = IF deq
                                   THEN IF pred_end = "none"
                                        THEN None
                                        ELSE Some([gap |-> idle_cnt, queued |-> pred_end = "queued"])
                                   ELSE last_gap
                    /\ pred_end' = IF last
                                   THEN IF src_queue' # <<>> THEN "queued" ELSE "late"
                                   ELSE pred_end
                    /\ UNCHANGED <<flushed, n_flushed, n_lost>>
           ELSE /\ bus_d' = 0
                /\ bus_er' = 0
                /\ bus_en' = 0
                /\ src_active' = FALSE
                /\ ifg_cnt' = cnt1
                /\ src_frame' = None
                /\ src_pc' = "ro"
                /\ bus_id' = None
                /\ idle_cnt' = idle_cnt + 1
                /\ UNCHANGED <<flushed, pred_end, last_gap, n_driven, n_flushed, n_lost>>

\* wait() of the source up to its first await: it returns at once when idle
SourceWait ==
    /\ swait_pc = "none"
    /\ swait_pc' = IF SourceIdle THEN "done" ELSE "armed"
    /\ UNCHANGED <<wait_pc, wait_timer, wait_how>>
    /\ UNCHANGED <<srcVars, busVars, sigVars, snkVars, srcHist, snkHist, step, recv_ret, sent, recv_n, nf>>

\* wait() of the source resumed by RisingEdge, before or after _run is
SourceWaitPoll ==
    /\ swait_pc = "due"
    /\ step \in {"src_edge", "snk_edge", "write"}
    /\ swait_pc' = IF SourceIdle THEN "done" ELSE "armed"
    /\ UNCHANGED <<wait_pc, wait_timer, wait_how>>
    /\ UNCHANGED <<srcVars, busVars, sigVars, snkVars, srcHist, snkHist, step, recv_ret, sent, recv_n, nf>>

\* GmiiSource._run from a RisingEdge to the next await ReadOnly
SrcEdge ==
    /\ step = "src_edge"
    /\ step' = "snk_edge"
    /\ IF src_pc = "dead"
       THEN SrcDead /\ src_pc' = src_pc
       ELSE IF src_pc = "rst_edge"
       THEN SrcReset /\ src_pc' = "ro"
       ELSE IF SrcEnabled(enable)
       THEN SrcDrive
       ELSE SrcHold /\ src_pc' = "ro"
    /\ UNCHANGED <<ifg, sigVars, snkVars, snkHist, waitVars, recv_ret, sent, recv_n, nf>>

\* GmiiSource._run from ReadOnly to the next await RisingEdge: reset is sampled
SrcRO ==
    /\ step = "src_ro"
    /\ step' = "snk_ro"
    /\ src_pc' = IF src_pc = "dead" THEN "dead" ELSE IF rst THEN "rst_edge" ELSE "edge"
    /\ UNCHANGED <<src_queue, src_bytes, src_frames, src_active, src_frame, ifg_cnt, ifg>>
    /\ UNCHANGED <<busVars, sigVars, snkVars, srcHist, snkHist, waitVars, recv_ret, sent, recv_n, nf>>

\* ------------------------------------------------------------------ GmiiSink

\* recv(), whoever calls it
RecvCall ==
    /\ IF snk_queue # <<>>
       THEN /\ snk_queue' = Tail(snk_queue)
            /\ snk_bytes' = snk_bytes - Len(Head(snk_queue).data)
            /\ snk_frames' = snk_frames - 1
            /\ recv_ret' = Some(Head(snk_queue))
            /\ recv_n' = recv_n + 1
       ELSE /\ recv_ret' = None
            /\ UNCHANGED <<snk_queue, snk_bytes, snk_frames, recv_n>>
    /\ UNCHANGED <<snk_active, snk_frame, snk_pc, sync>>
    /\ UNCHANGED <<srcVars, busVars, sigVars, srcHist, snkHist, step, sent, nf>>

\* recv() called by code that is not suspended in wait()
Recv ==
    /\ RecvCall
    /\ UNCHANGED waitVars

\* count()
SinkCount ==
    Len(snk_queue)

\* empty()
SinkEmpty ==
    snk_queue = <<>>

\* idle()
SinkIdle ==
    ~snk_active

\* the test of enable always passing
SnkEnabledAlways(e) ==
    TRUE

\* self.enable is None or self.enable.value, an absent enable being held TRUE
SnkEnabled(e) ==
    e

\* self.sync.set() leaving the coroutine that waits for the Event suspended
WakeLost(pc) ==
    pc

\* self.sync.set(): the coroutine that waits for the Event is resumed
WakeOnSet(pc) ==
    IF pc = "blocked" THEN "woken" ELSE pc

\* wait() without its self.sync.clear()
ClearSyncKept(s) ==
    s

\* self.sync.clear()
ClearSync(s) ==
    FALSE

\* wait(timeout) up to its await: with an empty queue the Event is cleared and
\* waited for (a set Event would not suspend the caller), with a Timer of t
\* cycles when t is not 0
SinkWait(t) ==
    /\ wait_pc = "idle"
    /\ IF ~SinkEmpty
       THEN /\ wait_pc' = "back"
            /\ wait_how' = "at_once"
            /\ UNCHANGED <<sync, wait_timer>>
       ELSE /\ sync' = ClearSync(sync)
            /\ wait_pc' = IF sync' THEN "back" ELSE "blocked"
            /\ wait_how' = IF sync' THEN "event" ELSE wait_how
            /\ wait_timer' = IF ~sync' /\ t # 0 THEN Some(t) ELSE None
    /\ UNCHANGED <<snk_queue, snk_bytes, snk_frames, snk_active, snk_frame, snk_pc, swait_pc>>
    /\ UNCHANGED <<srcVars, busVars, sigVars, srcHist, snkHist, step, recv_ret, sent, recv_n, nf>>

\* wait() resumed by the Event
SinkWaitResume ==
    /\ wait_pc = "woken"
    /\ wait_pc' = "back"
    /\ wait_how' = "event"
    /\ wait_timer' = None
    /\ UNCHANGED <<snkVars, swait_pc>>
    /\ UNCHANGED <<srcVars, busVars, sigVars, srcHist, snkHist, step, recv_ret, sent, recv_n, nf>>

\* rx_frame = tb.sink.recv() after await tb.sink.wait()
RecvAfterWait ==
    /\ wait_pc = "back"
    /\ wait_pc' = "idle"
    /\ RecvCall
    /\ UNCHANGED <<wait_timer, wait_how, swait_pc>>

\* the sampled byte appended without its error marker
SnkAppendNoError(f, d_val, er_val) ==
    [f EXCEPT !.data = Append(f.data, d_val),
              !.error = Some(Append(Val(f.error), 0)),
              !.stime = Append(f.stime, now)]

\* the reset branch leaving the frame being assembled in place
SnkResetKeepsFrame ==
    /\ snk_frame' = snk_frame
    /\ snk_active' = FALSE
    /\ dropped' = IF snk_frame # None
                  THEN dropped \cup {Val(snk_frame).stime[i] : i \in 1..Len(Val(snk_frame).stime)}
                  ELSE dropped
    /\ UNCHANGED <<snk_queue, snk_bytes, snk_frames, sync, rx_log>>

\* _run, the reset branch after its RisingEdge
SnkReset ==
    /\ snk_frame' = None
    /\ snk_active' = FALSE
    /\ dropped' = IF snk_frame # None
                  THEN dropped \cup {Val(snk_frame).stime[i] : i \in 1..Len(Val(snk_frame).stime)}
                  ELSE dropped
    /\ UNCHANGED <<snk_queue, snk_bytes, snk_frames, sync, rx_log>>

\* the frame of _run with the sampled byte and error marker appended
SnkAppend(f, d_val, er_val) ==
    [f EXCEPT !.data = Append(f.data, d_val),
              !.error = Some(Append(Val(f.error), er_val)),
              !.stime = Append(f.stime, now)]

\* _run with enable asserted (or absent): the bus is sampled
SnkSample ==
    LET d_val == bus_d
        dv_val == bus_en # 0
        er_val == IF has_er THEN bus_er ELSE 0
    IN  IF snk_frame = None
        THEN /\ snk_frame' = IF dv_val
                             THEN Some(SnkAppend([data |-> <<>>, error |-> Some(<<>>),
                                                  rx_sim_time |-> Some(now), stime |-> <<>>],
                                                 d_val, er_val))
                             ELSE None
             /\ UNCHANGED <<snk_queue, snk_bytes, snk_frames, snk_active, sync, rx_log, dropped>>
             /\ UNCHANGED wait_pc
        ELSE IF ~dv_val
        THEN LET f == [Val(snk_frame) EXCEPT !.error = Compact(Val(Val(snk_frame).error))]
             IN  /\ snk_bytes' = snk_bytes + Len(f.data)
                 /\ snk_frames' = snk_frames + 1
                 /\ snk_queue' = Append(snk_queue, f)
                 /\ sync' = TRUE
                 /\ wait_pc' = WakeOnSet(wait_pc)
                 /\ snk_frame' = None
                 /\ rx_log' = Append(rx_log, f)
                 /\ UNCHANGED <<snk_active, dropped>>
        ELSE /\ snk_frame' = Some(SnkAppend(Val(snk_frame), d_val, er_val))
             /\ UNCHANGED <<snk_queue, snk_bytes, snk_frames, snk_active, sync, rx_log, dropped>>
             /\ UNCHANGED wait_pc

\* GmiiSink._run from ReadOnly to the next await RisingEdge
SnkRO ==
    /\ step = "snk_ro"
    /\ step' = "tick"
    /\ IF rst
       THEN /\ snk_pc' = "rst_edge"
            /\ UNCHANGED <<snk_queue, snk_bytes, snk_frames, snk_active, snk_frame, sync, snkHist>>
            /\ UNCHANGED wait_pc
       ELSE IF SnkEnabled(enable)
       THEN SnkSample /\ snk_pc' = "edge"
       ELSE /\ snk_pc' = "edge"
            /\ UNCHANGED <<snk_queue, snk_bytes, snk_frames, snk_active, snk_frame, sync, snkHist>>
            /\ UNCHANGED wait_pc
    /\ UNCHANGED <<wait_timer, wait_how, swait_pc>>
    /\ UNCHANGED <<srcVars, busVars, sigVars, srcHist, recv_ret, sent, recv_n, nf>>

\* GmiiSink._run from a RisingEdge to the next await ReadOnly
SnkEdge ==
    /\ step = "snk_edge"
    /\ step' = "write"
    /\ snk_pc' = "ro"
    /\ IF snk_pc = "rst_edge"
       THEN SnkReset
       ELSE UNCHANGED <<snk_queue, snk_bytes, snk_frames, snk_active, snk_frame, sync, snkHist>>
    /\ UNCHANGED <<srcVars, busVars, sigVars, srcHist, waitVars, recv_ret, sent, recv_n, nf>>

\* ------------------------------------------------------------------ simulator

\* the simulator advances to the next rising edge of the clock, as long as the
\* test goes on: a coroutine woken by the Event has run by then, a Timer that
\* is due fires, and the coroutines awaiting RisingEdge are to be resumed
Tick(more) ==
    /\ step = "tick"
    /\ more
    /\ wait_pc # "woken"
    /\ now' = now + 1
    /\ step' = "src_edge"
    /\ IF wait_pc = "blocked" /\ wait_timer # None
       THEN IF Val(wait_timer) <= 1
            THEN /\ wait_pc' = "back"
                 /\ wait_how' = "timeout"
                 /\ wait_timer' = None
            ELSE /\ wait_timer' = Some(Val(wait_timer) - 1)
                 /\ UNCHANGED <<wait_pc, wait_how>>
       ELSE UNCHANGED <<wait_pc, wait_timer, wait_how>>
    /\ swait_pc' = IF swait_pc = "armed" THEN "due" ELSE swait_pc
    /\ UNCHANGED <<has_er, rst, enable>>
    /\ UNCHANGED <<srcVars, busVars, snkVars, srcHist, snkHist, recv_ret, sent, recv_n, nf>>

\* the values written to reset and enable at this edge take effect, once
\* every coroutine resumed by the edge has run
Write(R, E) ==
    /\ step = "write"
    /\ swait_pc # "due"
    /\ rst' \in R
    /\ enable' \in E
    /\ step' = "src_ro"
    /\ UNCHANGED <<has_er, now>>
    /\ UNCHANGED <<srcVars, busVars, snkVars, srcHist, snkHist, waitVars, recv_ret, sent, recv_n, nf>>

\* ------------------------------------------------------------------ specifications

\* source and sink with reset and enable driven freely
Next ==
    \/ Tick(now < MaxTime)
    \/ SrcEdge
    \/ SnkEdge
    \/ Write(BOOLEAN, BOOLEAN)
    \/ SrcRO
    \/ SnkRO
    \/ \E f \in TxFrames : Send(f, None, MaxTime)
    \/ Recv

Spec ==
    Init /\ [][Next]_vars

\* a frame is queued or in transmission, on the bus or being assembled
LinkBusy ==
    \/ src_queue # <<>>
    \/ src_frame # None
    \/ bus_en # 0
    \/ snk_frame # None

\* run_test goes on while it may still send, and then until the link is quiet
LinkRuns ==
    now <= SendDeadline \/ LinkBusy

\* source and sink linked as in run_test: reset never asserted, enable held
LinkClock ==
    \/ Tick(LinkRuns)
    \/ SrcEdge
    \/ SnkEdge
    \/ Write({FALSE}, {TRUE})
    \/ SrcRO
    \/ SnkRO

LinkNext ==
    \/ LinkClock
    \/ \E f \in LinkFrames(Len(sent) + 1) : Send(f, None, SendDeadline)
    \/ Recv

\* the clock runs and every coroutine waiting for a trigger is resumed
LinkSpec ==
    LinkInit /\ [][LinkNext]_vars /\ WF_vars(LinkClock)

\* run_test up to the sink's queue: frames made by from_payload
RoundTripClock ==
    \/ Tick(LinkRuns)
    \/ SrcEdge
    \/ SnkEdge
    \/ Write({FALSE}, {TRUE})
    \/ SrcRO
    \/ SnkRO

RoundTripNext ==
    \/ RoundTripClock
    \/ \E p \in Payloads(Len(sent) + 1) : SendPayload(p, SendDeadline)

\* the clock runs and every coroutine waiting for a trigger is resumed
RoundTripSpec ==
    RoundTripInit /\ [][RoundTripNext]_vars /\ WF_vars(RoundTripClock)

\* a wait(timeout) of the sink is suspended with its Timer running
TimerRuns ==
    wait_pc = "blocked" /\ wait_timer # None

\* the test goes on while run_test does, and until a running Timer has fired
WaitRuns ==
    LinkRuns \/ TimerRuns

\* run_test with reset never asserted and enable held
WaitClock ==
    \/ Tick(WaitRuns)
    \/ SrcEdge
    \/ SnkEdge
    \/ Write({FALSE}, {TRUE})
    \/ SrcRO
    \/ SnkRO
    \/ SinkWaitResume

\* the consumer of run_test: await tb.sink.wait(), then tb.sink.recv(), again
\* and again; a timeout is passed only while the test goes on
Consumer ==
    \/ \E t \in {0, MaxTimeout} : (t = 0 \/ LinkRuns) /\ SinkWait(t)
    \/ RecvAfterWait

WaitNext ==
    \/ WaitClock
    \/ Consumer
    \/ \E f \in LinkFrames(Len(sent) + 1) : Send(f, None, SendDeadline)

\* the clock runs, the coroutines waiting for a trigger are resumed, and the
\* consumer goes on whenever it is not suspended
WaitSpec ==
    WaitInit /\ [][WaitNext]_vars /\ WF_vars(WaitClock) /\ WF_vars(Consumer)

\* a caller is suspended in the source's wait()
SourceWaiting ==
    swait_pc \in {"armed", "due"}

\* _run of the source has work left or its outputs are not yet idle, or a
\* caller of wait() has an edge to come at which idle() can be true
SourceBusy ==
    \/ /\ src_pc # "dead"
       /\ (src_queue # <<>> \/ src_frame # None \/ src_active \/ ifg_cnt > 0 \/ SourceWaiting)
    \/ /\ src_pc = "dead"
       /\ SourceWaiting
       /\ SourceIdle

\* the test goes on while it may send or assert reset, and then until nothing
\* can change any more
DriverRuns ==
    \/ now <= Max(SendDeadline, ResetDeadline)
    \/ rst
    \/ SourceBusy
    \/ bus_en # 0
    \/ snk_frame # None

\* reset asserted at will up to ResetDeadline and never after, enable held
DriverClock ==
    \/ Tick(DriverRuns)
    \/ SrcEdge
    \/ SnkEdge
    \/ Write(IF now < ResetDeadline THEN BOOLEAN ELSE {FALSE}, {TRUE})
    \/ SrcRO
    \/ SnkRO
    \/ SourceWaitPoll

DriverNext ==
    \/ DriverClock
    \/ \E f \in DriverFrames(Len(sent) + 1) : Send(f, None, SendDeadline)
    \/ SourceWait

\* the clock runs and every coroutine waiting for a trigger is resumed
DriverSpec ==
    WaitInit /\ [][DriverNext]_vars /\ WF_vars(DriverClock)

\* a frame normalized again and again
NormNext ==
    NormalizeCall

NormSpec ==
    NormInit /\ [][NormNext]_vars

\* source and sink linked, reset never asserted and enable held, the frames
\* carrying error markers and all of them sent before the first edge, as
\* run_test sends its frames
ErrNext ==
    \/ LinkClock
    \/ \E f \in ErrFrames(Len(sent) + 1) : Send(f, None, 0)

\* the clock runs and every coroutine waiting for a trigger is resumed
ErrSpec ==
    WaitInit /\ [][ErrNext]_vars /\ WF_vars(LinkClock)

\* ------------------------------------------------------------------ claims

\* C1 (RoundTripSpec): every frame sent as from_payload(P) is eventually
\* enqueued by the sink, with get_payload() equal to P and error None.
C1_RoundTrip ==
    \A i \in 1..MaxSend :
        (Len(sent) >= i)
            ~> (/\ Len(rx_log) >= i
                /\ GetPayload(rx_log[i].data) = Val(sent[i].payload)
                /\ rx_log[i].error = None)

\* a frame with a non-empty payload has come out of the sink with that payload
C1_Witness ==
    /\ Len(rx_log) >= 1
    /\ Val(sent[1].payload) # <<>>
    /\ GetPayload(rx_log[1].data) = Val(sent[1].payload)
    /\ rx_log[1].error = None

\* what the sink has enqueued so far is a prefix of what was sent, frame by frame
RxIsPrefixOfSent ==
    /\ Len(rx_log) <= Len(sent)
    /\ \A i \in 1..Len(rx_log) : rx_log[i].data = sent[i].data /\ rx_log[i].error = None

C3_Counters ==
    /\ [](/\ src_bytes = SumLen(src_queue)
          /\ src_frames = SourceCount
          /\ snk_bytes = SumLen(snk_queue)
          /\ snk_frames = SinkCount
          /\ src_bytes >= 0 /\ src_frames >= 0 /\ snk_bytes >= 0 /\ snk_frames >= 0)
    /\ [][(snk_queue = <<>> /\ step' = step)
            => /\ snk_queue' = <<>>
               /\ snk_bytes' = snk_bytes
               /\ snk_frames' = snk_frames
               /\ (sent' = sent => recv_ret' = None)]_vars

\* reset is asserted with frames counted in both queues
C3_Witness ==
    /\ rst
    /\ src_queue # <<>>
    /\ snk_queue # <<>>
    /\ src_bytes > 0
    /\ snk_bytes > 0

\* C4 (LinkSpec): with ifg = G >= 1 and the next frame queued when a frame ends,
\* valid is low for exactly G cycles between the two frames.
C4_GapIsIfg ==
    (last_gap # None /\ Val(last_gap).queued /\ ifg >= 1) => Val(last_gap).gap = ifg

\* with ifg = 2 a queued frame has started two idle cycles after its predecessor
C4_Witness ==
    last_gap # None /\ Val(last_gap).queued /\ ifg = 2 /\ Val(last_gap).gap = 2

\* C5 as stated (LinkSpec): with ifg = 0 the next frame starts on the cycle after
\* the last byte of its predecessor, valid staying asserted.
C5_BackToBack ==
    (last_gap # None /\ Val(last_gap).queued /\ ifg = 0) => Val(last_gap).gap = 0

\* C5 amended (LinkSpec): with ifg = 0 and the next frame queued, valid is low for
\* exactly one cycle between the two frames.
C5_OneIdleCycle ==
    (last_gap # None /\ Val(last_gap).queued /\ ifg = 0) => Val(last_gap).gap = 1

\* with ifg = 0 a queued frame has started after its predecessor
C5_Witness ==
    last_gap # None /\ Val(last_gap).queued /\ ifg = 0 /\ bus_en = 1

\* C6 (LinkSpec, ifg from -1 up): valid is low for at least one cycle between the
\* last byte of a frame and the first byte of the next.
C6_MinimumGap ==
    last_gap # None => Val(last_gap).gap >= 1

\* with a negative ifg a frame has started after its predecessor
C6_Witness ==
    last_gap # None /\ ifg < 0 /\ Val(last_gap).gap = 1

\* the ids of the frames in a queue of the source
Ids(q) ==
    {q[i].id : i \in 1..Len(q)}

\* the sample times of the bytes of a frame of the sink
Times(f) ==
    {f.stime[i] : i \in 1..Len(f.stime)}

\* C7 (Spec): when the source has sampled reset with a frame in transmission, at
\* the next edge it drives d = 0, er = 0, en = 0 and clears ifg_cnt and the
\* frame, which is not put back in the queue; no byte of a frame discarded so
\* is on the bus, in transmission or queued afterwards.
C7_ResetFlush ==
    /\ [][(step = "src_edge" /\ step' = "snk_edge" /\ src_pc = "rst_edge" /\ src_frame # None)
            => /\ bus_d' = 0 /\ bus_er' = 0 /\ bus_en' = 0
               /\ ifg_cnt' = 0
               /\ src_frame' = None
               /\ src_queue' = src_queue
               /\ Val(src_frame).id \in flushed']_vars
    /\ [](/\ (bus_id # None => Val(bus_id)[1] \notin flushed)
          /\ (src_frame # None => Val(src_frame).id \notin flushed)
          /\ Ids(src_queue) \cap flushed = {})

\* a frame was discarded by a reset with bytes left, and the source is driving
\* a byte of a later frame
C7_Witness ==
    /\ flushed # {}
    /\ n_flushed > 0
    /\ bus_id # None
    /\ bus_en = 1

\* C8 (Spec): when the sink has sampled reset, at the next edge it drops the frame
\* it is assembling and changes neither its queue nor its counters; no byte
\* sampled for a dropped frame is in a frame it enqueues (or assembles) later.
C8_SinkResetDiscard ==
    /\ [][(step = "snk_edge" /\ step' = "write" /\ snk_pc = "rst_edge")
            => /\ snk_frame' = None
               /\ snk_queue' = snk_queue
               /\ snk_bytes' = snk_bytes
               /\ snk_frames' = snk_frames]_vars
    /\ [][(step = "snk_ro" /\ step' = "tick" /\ rst)
            => /\ snk_frame' = snk_frame
               /\ snk_queue' = snk_queue
               /\ snk_bytes' = snk_bytes
               /\ snk_frames' = snk_frames]_vars
    /\ [](/\ \A i \in 1..Len(rx_log) : Times(rx_log[i]) \cap dropped = {}
          /\ (snk_frame # None => Times(Val(snk_frame)) \cap dropped = {}))

\* the sink has dropped a partial frame at the edge after it sampled reset
C8_Witness ==
    /\ dropped # {}
    /\ snk_frame = None
    /\ snk_pc = "ro"

\* C9 as stated (Spec): idle() of the sink is false exactly while it is assembling
\* a frame.
C9_IdleTracksReception ==
    SinkIdle <=> snk_frame = None

C11_NoLostWakeup ==
    /\ [](wait_pc = "blocked" => snk_queue = <<>>)
    /\ [][(wait_pc = "idle" /\ wait_pc' # "idle" /\ snk_queue # <<>>)
            => (wait_pc' = "back" /\ wait_how' = "at_once" /\ sync' = sync)]_vars
    /\ [][(wait_pc = "back" /\ wait_pc' = "idle" /\ wait_how # "timeout")
            => recv_ret' # None]_vars
    /\ []<>(recv_n = Len(sent))

\* a consumer suspended in wait() was woken by the frame that completed, and
\* its recv() has returned that frame
C11_Witness ==
    /\ wait_how = "event"
    /\ wait_pc = "idle"
    /\ recv_n >= 1
    /\ recv_ret # None
    /\ Val(recv_ret).data = sent[recv_n].data

\* C12 (WaitSpec): a wait(timeout) whose Timer fires returns with the queue
\* empty and with queue, counters and the frame being assembled as they were;
\* a wait() that returns otherwise returns with a frame in the queue, so that
\* empty() tells the two apart; without a timeout a suspended wait() returns
\* only when a frame is enqueued.
C12_TimedOutWait ==
    /\ [][(wait_pc = "blocked" /\ wait_pc' = "back" /\ wait_how' = "timeout")
            => /\ snk_queue' = snk_queue /\ snk_queue = <<>>
               /\ snk_bytes' = snk_bytes
               /\ snk_frames' = snk_frames
               /\ snk_frame' = snk_frame
               /\ wait_timer # None]_vars
    /\ [][(wait_pc # "back" /\ wait_pc' = "back" /\ wait_how' # "timeout")
            => snk_queue' # <<>>]_vars
    /\ [][(wait_pc = "blocked" /\ wait_timer = None /\ wait_pc' # "blocked")
            => Len(rx_log') > Len(rx_log)]_vars

\* a wait(timeout) has timed out while a frame was being assembled, and the
\* recv() that followed returned None
C12_Witness ==
    /\ wait_how = "timeout"
    /\ wait_pc = "idle"
    /\ recv_ret = None
    /\ recv_n = 0
    /\ snk_frame # None

C14_WaitLiveness ==
    /\ []<>(SourceIdle /\ n_driven + n_flushed = SumLen(sent))
    /\ (SourceWaiting ~> swait_pc = "done")

\* C15 (Spec): at an edge where reset was not sampled and enable is de-asserted
\* the source changes neither its frame in transmission, ifg_cnt, queue,
\* counters and active flag nor any bus output, and drives no byte; a byte
\* driven for a frame in transmission is the one that follows the last byte
\* driven, which is still on the bus, and the first byte driven for a frame is
\* its first, so that no byte is skipped or driven twice.
C15_EnableHold ==
    /\ [][(step = "src_edge" /\ step' = "snk_edge" /\ src_pc = "edge" /\ ~enable)
            => /\ src_frame' = src_frame
               /\ ifg_cnt' = ifg_cnt
               /\ src_queue' = src_queue
               /\ src_bytes' = src_bytes
               /\ src_frames' = src_frames
               /\ src_active' = src_active
               /\ bus_d' = bus_d /\ bus_er' = bus_er /\ bus_en' = bus_en
               /\ bus_id' = bus_id
               /\ n_driven' = n_driven]_vars
    /\ [][(n_driven' # n_driven /\ src_frame # None)
            => /\ bus_id # None
               /\ Val(bus_id)[1] = Val(src_frame).id
               /\ bus_id' = Some(<<Val(bus_id)[1], Val(bus_id)[2] + 1>>)]_vars
    /\ [][(n_driven' # n_driven /\ src_frame = None)
            => Val(bus_id')[2] = 1]_vars
    /\ [](bus_id # None => bus_d = sent[Val(bus_id)[1]].data[Val(bus_id)[2]])

\* the source has just held at an edge with enable de-asserted, in the middle
\* of a frame whose first byte stays on the bus
C15_Witness ==
    /\ step = "snk_edge"
    /\ ~enable
    /\ ~rst
    /\ src_pc = "ro"
    /\ src_frame # None
    /\ bus_en = 1
    /\ bus_id = Some(<<Val(src_frame).id, 1>>)

\* C16 (Spec): in a cycle where reset is not asserted and enable is de-asserted
\* the sink does nothing, whatever is on the bus: the frame being assembled is
\* neither extended nor ended, none is started, and queue, counters and Event
\* are unchanged; the edge that follows changes nothing either.
C16_EnableFreeze ==
    /\ [][(step = "snk_ro" /\ step' = "tick" /\ ~rst /\ ~enable)
            => /\ snk_frame' = snk_frame
               /\ snk_queue' = snk_queue
               /\ snk_bytes' = snk_bytes
               /\ snk_frames' = snk_frames
               /\ snk_active' = snk_active
               /\ sync' = sync
               /\ rx_log' = rx_log]_vars
    /\ [][(step = "snk_edge" /\ step' = "write" /\ snk_pc = "edge")
            => /\ snk_frame' = snk_frame
               /\ snk_queue' = snk_queue
               /\ snk_bytes' = snk_bytes
               /\ snk_frames' = snk_frames
               /\ sync' = sync]_vars

\* the sink has just gone through a cycle with enable de-asserted and a valid
\* byte on the bus that it has not sampled, in the middle of a frame
C16_Witness ==
    /\ step = "tick"
    /\ ~enable
    /\ ~rst
    /\ bus_en = 1
    /\ snk_frame # None
    /\ bus_id # None
    /\ Val(bus_id)[2] = Len(Val(snk_frame).data) + 1

\* C17 as stated (NormSpec): no call of normalize() raises; after it error is a
\* list as long as data, that keeps the leading markers of the list the frame
\* was made with and repeats its last marker for the missing ones, or is all
\* zeros for a frame made without a list; and a second call changes nothing.
C17_NormalizePost ==
    (nf # None /\ Val(nf).calls >= 1)
        => LET f == Val(nf)
               n == Len(f.data)
           IN  /\ ~f.raised
               /\ f.error # None
               /\ Len(Val(f.error)) = n
               /\ f.error = f.error_once
               /\ IF f.error_in = None
                  THEN \A i \in 1..n : Val(f.error)[i] = 0
                  ELSE LET e == Val(f.error_in)
                       IN  \A i \in 1..n :
                               Val(f.error)[i] = IF i <= Len(e) THEN e[i] ELSE e[Len(e)]

\* C18 (ErrSpec: er wired, no reset, enable held, frames sent with a non-empty
\* list E of error markers): while byte i of a frame is on the bus, er is
\* normalize(E)[i]; the frame the sink assembles has, byte for byte, the
\* markers of normalize(E); every frame the sink enqueues has error equal to
\* normalize(E) when one of its markers is not zero and None otherwise; and
\* every frame sent is enqueued.
C18_ErrorAligned ==
    /\ [](bus_id # None
            => /\ bus_en = 1
               /\ bus_d = sent[Val(bus_id)[1]].data[Val(bus_id)[2]]
               /\ bus_er = Normalize(sent[Val(bus_id)[1]])[Val(bus_id)[2]])
    /\ [](snk_frame # None
            => LET f == Val(snk_frame)
                   e == Normalize(sent[Len(rx_log) + 1])
               IN  /\ Len(Val(f.error)) = Len(f.data)
                   /\ \A i \in 1..Len(f.data) : Val(f.error)[i] = e[i])
    /\ [](\A i \in 1..Len(rx_log) :
            /\ rx_log[i].data = sent[i].data
            /\ rx_log[i].error = Compact(Normalize(sent[i])))
    /\ []<>(Len(rx_log) = Len(sent))

\* the sink has enqueued a frame sent with more markers than bytes, the marker
\* set being on its second byte and on no other
C18_Witness ==
    /\ Len(rx_log) >= 1
    /\ Len(Val(sent[1].error)) > Len(sent[1].data)
    /\ Len(rx_log[1].data) >= 2
    /\ rx_log[1].error = Some([i \in 1..Len(rx_log[1].data) |-> IF i = 2 THEN 1 ELSE 0])

\* C19 as stated (Spec, frames of zero bytes among those sent): whenever _run
\* is about to run its drive step with a frame in progress, dequeued at this
\* edge or before, that frame has a byte left to pop.
C19_DriveHasByte ==
    (step = "src_edge" /\ src_pc = "edge" /\ SrcEnabled(enable))
        => LET deq == CanDequeue(ifg_cnt, src_frame, src_queue)
               fr == IF ~deq
                     THEN src_frame
                     ELSE IF NormalizeRaises(Head(src_queue))
                     THEN None
                     ELSE Some(Head(src_queue))
           IN  fr # None => Val(fr).data # <<>>

\* C20 (Spec): every frame in the sink's queue has at least one byte, has
\* rx_sim_time equal to the time at which its first byte was sampled, and has
\* error None or a list of one marker per byte, not all of them zero.
C20_WellFormedRx ==
    \A i \in 1..Len(snk_queue) :
        LET f == snk_queue[i]
        IN  /\ Len(f.data) >= 1
            /\ Len(f.stime) = Len(f.data)
            /\ f.rx_sim_time = Some(f.stime[1])
            /\ \/ f.error = None
               \/ /\ Len(Val(f.error)) = Len(f.data)
                  /\ AnyErr(Val(f.error))

\* the queue holds a frame of several bytes received with its error markers
\* set, stamped with the time of its first byte
C20_Witness ==
    /\ snk_queue # <<>>
    /\ Len(Head(snk_queue).data) >= 2
    /\ Head(snk_queue).error # None
    /\ AnyErr(Val(Head(snk_queue).error))
    /\ Head(snk_queue).rx_sim_time = Some(Head(snk_queue).stime[1])
    /\ Val(Head(snk_queue).rx_sim_time) < now

====
